---- MODULE Spec2Model ----
(***************************************************************************)
(* Model of the chat-support orchestrator of ai_intynet.                   *)
(*                                                                         *)
(* Part 1: MessageBuffer (src/app/services/message_buffer.py), the         *)
(* per-customer debounce scheduler.  asyncio runs one coroutine at a time  *)
(* and switches only at an await, so every action below is the code       *)
(* between two awaits.  Time is counted in ticks of the watcher's          *)
(* tolerance (0.1 s): Tol is one tick and the quiet period is Delay ticks. *)
(* asyncio.sleep(delay) wakes its task exactly Delay ticks later.          *)
(*                                                                         *)
(* Part 2: the handler of a coalesced message, process_buffered_message    *)
(* (src/app/main.py), with the helpers that classify a text, the session   *)
(* store, the escalation tag of the Qiscus room and the conversation       *)
(* engine AIHandler.process_message (src/app/services/ai_handler.py).  A   *)
(* text is a string; the helpers are computed on its characters.  One run  *)
(* of the handler is one action; OverlaySpec is the specification of this  *)
(* part.                                                                   *)
(*                                                                         *)
(* Part 3: SessionManager with the time-to-live of its Redis keys          *)
(* (src/app/services/session_manager.py), specification StoreSpec, and     *)
(* AIHandler.process_message as a function of the session, the message     *)
(* and the answers of the language model, specification EngineSpec.        *)
(*                                                                         *)
(* Part 4: the buffer together with the session store.  RaceSpec has the   *)
(* callback write the session when it returns and the administrative       *)
(* delete of src/app/main.py beside it; WatchSpec is the buffer without    *)
(* clear, with time passing only while no callback runs.                   *)
(***************************************************************************)
EXTENDS Integers, Sequences, FiniteSets, TLC

\* ---------------------------------------------------------------- bounds
MaxTime == 6        \* the clock stops advancing here
MaxMsgs == 3        \* add_message calls in one behaviour
MaxTasks == 3       \* watcher tasks created in one behaviour
MaxClears == 1      \* clear / clear_all calls in one behaviour
Delay == 3          \* the configured quiet period, in ticks
MaxDispatch == 1    \* runs of process_buffered_message in one behaviour
MaxDay == 3         \* the calendar stops advancing here
MaxClock == 3       \* the clock of the session store stops advancing here
session_ttl == 2    \* the configured time-to-live, in ticks of that clock

\* ------------------------------------------------------------- constants
Tol == 1            \* "delay - 0.1": the small tolerance, one tick
SP == 0             \* the character " " of " ".join

Customers == {"c1", "c2"}

VARIABLES
    now,                \* time.time()
    buffers,            \* self.buffers: customer id -> buffer record
    active_processors,  \* self.active_processors: the ids marked True
    tasks,              \* the live _process_when_ready tasks: id -> record
    nextTask,           \* number of tasks created so far
    calls,              \* history: the callback invocations, in order
    accepted,           \* history: the add_message calls that returned
    cleared,            \* history: the messages clear/clear_all discarded
    nClears             \* history: number of clear / clear_all calls

VARIABLES
    sessions,                \* the session store: customer id -> session
    default_collected_data,  \* DEFAULT_SESSION["collected_data"]
    room_tags,               \* Qiscus: room id -> the escalation tag
    today,                   \* datetime.now(), in days
    last,                    \* history: the run of the handler just ended
    nDispatch                \* history: number of runs of the handler

bvars == <<now, buffers, active_processors, tasks, nextTask, calls, accepted,
           cleared, nClears>>

ovars == <<sessions, default_collected_data, room_tags, today, last,
           nDispatch>>

VARIABLES
    use_redis,   \* self._use_redis
    clock,       \* the time of the session store, in ticks
    written,     \* history: customer id -> the tick of the last write of
                 \* the session, -1 with none since the start or a delete
    sm_last,     \* history: the last call of update_session or delete
    call         \* history: the last call of process_message

xvars == <<use_redis, clock, written, sm_last, call>>

vars == <<bvars, ovars, xvars>>

\* ------------------------------------------------------- dict operations
\* dict.pop(key, None): the dict without the key
Pop(d, k) == [x \in DOMAIN d \ {k} |-> d[x]]

\* dict[key] = value
Put(d, k, v) == [x \in DOMAIN d \cup {k} |-> IF x = k THEN v ELSE d[x]]

\* " ".join(messages)
RECURSIVE Join(_)
Join(messages) ==
    IF messages = <<>> THEN <<>>
    ELSE IF Len(messages) = 1 THEN messages[1]
    ELSE messages[1] \o <<SP>> \o Join(Tail(messages))

\* the characters of a sequence of texts / of one text
CharsOf(text) == {text[i] : i \in 1..Len(text)}
CharsOfAll(messages) == UNION {CharsOf(messages[i]) : i \in 1..Len(messages)}

\* ------------------------------------------------------------ add_message
\* mutant: the new message is put in front of the buffered ones
AppendedBufferFront(b, message) ==
    [b EXCEPT !.messages = <<message>> \o @, !.last_update = now]

\* line 47-48: append to the existing buffer, refresh last_update
AppendedBuffer(b, message) ==
    [b EXCEPT !.messages = Append(@, message), !.last_update = now]

\* line 54-60: a new buffer holding the message
NewBuffer(message) ==
    [messages |-> <<message>>, created_at |-> now, last_update |-> now]

\* line 64: "if not self.active_processors.get(customer_id)"
StartsProcessor(customer_id) == customer_id \notin active_processors

\* the task asyncio.create_task makes: it runs up to its first sleep
NewTask(customer_id) ==
    [cid |-> customer_id, pc |-> "sleep", wake |-> now + Delay]

add_message(customer_id, message) ==
    /\ accepted' = Append(accepted,
                          [cid |-> customer_id, text |-> message, at |-> now])
    /\ IF customer_id \in DOMAIN buffers
       THEN /\ buffers' = Put(buffers, customer_id,
                              AppendedBuffer(buffers[customer_id], message))
            /\ UNCHANGED <<active_processors, tasks, nextTask>>
       ELSE /\ buffers' = Put(buffers, customer_id, NewBuffer(message))
            /\ IF StartsProcessor(customer_id)
               THEN /\ nextTask < MaxTasks
                    /\ active_processors' = active_processors \cup {customer_id}
                    /\ nextTask' = nextTask + 1
                    /\ tasks' = Put(tasks, nextTask + 1, NewTask(customer_id))
               ELSE UNCHANGED <<active_processors, tasks, nextTask>>
    /\ UNCHANGED <<now, calls, cleared, nClears>>

\* every message of a behaviour is a different one-character text
AddMessage ==
    /\ Len(accepted) < MaxMsgs
    /\ \E customer_id \in Customers :
          add_message(customer_id, <<Len(accepted) + 1>>)

\* ---------------------------------------------------- _process_when_ready
\* line 85: "time_since_last >= self.delay - 0.1"
Quiet(b) == now - b.last_update >= Delay - Tol

\* mutant: the flush reads the buffer and leaves it in the dict
FlushedBuffersKept(customer_id) == buffers

\* line 94: "buffer = self.buffers.pop(customer_id, None)"
FlushedBuffers(customer_id) == Pop(buffers, customer_id)

\* line 118: the finally block
ReleasedProcessors(customer_id) == active_processors \ {customer_id}

\* line 116: the except block's "self.buffers.pop(customer_id, None)"
FailedBuffers(customer_id) == Pop(buffers, customer_id)

\* lines 75-112: the task wakes from asyncio.sleep and runs to its next await
WatcherWake(t) ==
    /\ t \in DOMAIN tasks
    /\ tasks[t].pc = "sleep"
    /\ tasks[t].wake <= now
    /\ LET customer_id == tasks[t].cid IN
       IF customer_id \notin DOMAIN buffers
       THEN \* line 78-79: return, then finally
            /\ tasks' = Pop(tasks, t)
            /\ active_processors' = ReleasedProcessors(customer_id)
            /\ UNCHANGED <<buffers, calls>>
       ELSE IF Quiet(buffers[customer_id])
       THEN \* line 94-112: pop, join, call the callback
            /\ buffers' = FlushedBuffers(customer_id)
            /\ calls' = Append(calls,
                  [cid |-> customer_id,
                   message |-> Join(buffers[customer_id].messages),
                   count |-> Len(buffers[customer_id].messages),
                   since |-> now - buffers[customer_id].last_update,
                   task |-> t,
                   st |-> "running"])
            /\ tasks' = [tasks EXCEPT ![t] = [@ EXCEPT !.pc = "callback",
                                                       !.wake = 0]]
            /\ UNCHANGED active_processors
       ELSE \* line 88: loop, sleep again
            /\ tasks' = [tasks EXCEPT ![t].wake = now + Delay]
            /\ UNCHANGED <<buffers, calls, active_processors>>
    /\ UNCHANGED <<now, nextTask, accepted, cleared, nClears>>

\* the history entry of the callback invocation task t is waiting for
CallOf(t) == CHOOSE i \in 1..Len(calls) : calls[i].task = t

\* line 108-118: the callback returns; finally
HandlerReturn(t) ==
    /\ t \in DOMAIN tasks
    /\ tasks[t].pc = "callback"
    /\ tasks' = Pop(tasks, t)
    /\ active_processors' = ReleasedProcessors(tasks[t].cid)
    /\ calls' = [calls EXCEPT ![CallOf(t)].st = "returned"]
    /\ UNCHANGED <<now, buffers, nextTask, accepted, cleared, nClears>>

\* line 114-118: the callback raises; except, then finally
HandlerRaise(t) ==
    /\ t \in DOMAIN tasks
    /\ tasks[t].pc = "callback"
    /\ tasks' = Pop(tasks, t)
    /\ buffers' = FailedBuffers(tasks[t].cid)
    /\ active_processors' = ReleasedProcessors(tasks[t].cid)
    /\ calls' = [calls EXCEPT ![CallOf(t)].st = "raised"]
    /\ UNCHANGED <<now, nextTask, accepted, cleared, nClears>>

\* ------------------------------------------------------ clear / clear_all
\* mutant: clear drops the marker only
ClearedBuffersKept(customer_id) == buffers

\* line 126
ClearedBuffers(customer_id) == Pop(buffers, customer_id)

\* line 127
ClearedProcessors(customer_id) == active_processors \ {customer_id}

clear(customer_id) ==
    /\ nClears < MaxClears
    /\ buffers' = ClearedBuffers(customer_id)
    /\ active_processors' = ClearedProcessors(customer_id)
    /\ cleared' = cleared \cup
          (IF customer_id \in DOMAIN buffers
           THEN CharsOfAll(buffers[customer_id].messages) ELSE {})
    /\ nClears' = nClears + 1
    /\ UNCHANGED <<now, tasks, nextTask, calls, accepted>>

Clear == \E customer_id \in Customers : clear(customer_id)

clear_all ==
    /\ nClears < MaxClears
    /\ buffers' = <<>>
    /\ active_processors' = {}
    /\ cleared' = cleared \cup
          UNION {CharsOfAll(buffers[c].messages) : c \in DOMAIN buffers}
    /\ nClears' = nClears + 1
    /\ UNCHANGED <<now, tasks, nextTask, calls, accepted>>

\* ------------------------------------------------------------------ time
\* the clock advances one tick; a sleep that is due wakes first
Tick ==
    /\ now < MaxTime
    /\ \A t \in DOMAIN tasks : tasks[t].pc = "sleep" => tasks[t].wake > now
    /\ now' = now + 1
    /\ UNCHANGED <<buffers, active_processors, tasks, nextTask, calls,
                   accepted, cleared, nClears>>

\* ============================================================== part 2

\* ------------------------------------------------------------ vocabularies
\* src/app/main.py line 93-103
complaint_keywords ==
    <<"laporan", "gimana", "bagaimana", "sudah", "udah", "belum",
    "progress", "status", "proses", "ditangani", "kapan", "gangguan",
    "mati", "lambat", "putus", "tidak bisa", "gak bisa", "ga bisa",
    "gabisa", "gk bisa", "error", "masalah", "kendala", "trouble", "down",
    "lelet", "lemot", "lag", "disconnect", "los", "merah", "rusak",
    "wifi", "internet", "koneksi", "masih", "tetap", "tetep", "sama aja",
    "gk usah", "juga">>

\* src/app/main.py line 117-121
ack_responses ==
    <<"ok", "oke", "okey", "okay", "baik", "baiklah", "siap", "sip",
    "iya", "ya", "yaa", "yup", "yep", "thanks", "makasih", "terima kasih",
    "noted", "good", "mantap", "aman", "done", "sudah", "udah">>

\* src/app/services/ai_handler.py line 117-132
not_resolved_keywords ==
    <<"masih", "tetap", "belum", "tidak", "gak", "ga ", "nggak", "ngga",
    "sama aja", "sama saja", "tetep", "still", "blm", "tdk">>

\* src/app/services/ai_handler.py line 134-151
resolved_keywords ==
    <<"sudah", "udah", "bisa", "berhasil", "work", "jalan", "lancar",
    "solved", "fix", "oke", "ok", "yes", "ya", "mantap", "thanks",
    "makasih">>

\* src/app/services/ai_handler.py line 589-604
yes_keywords ==
    <<"ya", "yes", "benar", "betul", "ok", "oke", "y", "yap", "yup",
    "iya", "yoi", "sip", "siap", "bener">>

\* src/app/services/ai_handler.py line 605-617
no_keywords ==
    <<"tidak", "no", "salah", "bukan", "koreksi", "ubah", "ganti", "n",
    "nggak", "ngga", "ga">>

\* ------------------------------------------------------------------ texts
\* A text is a string; Ch and From are Python's s[i] and s[i:].
Ch(text, i) == SubSeq(text, i, i)

From(text, i) == SubSeq(text, i, Len(text))

UpperAlpha == "ABCDEFGHIJKLMNOPQRSTUVWXYZ"

LowerAlpha == "abcdefghijklmnopqrstuvwxyz"

CharsIn(text) == {Ch(text, i) : i \in 1..Len(text)}

UpperSet == CharsIn(UpperAlpha)

LowerSet == CharsIn(LowerAlpha)

\* the classes [A-Za-z], \d, [A-Za-z0-9], \s of the patterns
Alpha == UpperSet \cup LowerSet

Digit == CharsIn("0123456789")

Alnum == Alpha \cup Digit

Space == {" ", "\n", "\t"}

\* str.lower and str.upper, one character
LowerCh(c) ==
    IF c \in UpperSet
    THEN Ch(LowerAlpha, CHOOSE i \in 1..Len(UpperAlpha) : Ch(UpperAlpha, i) = c)
    ELSE c

UpperCh(c) ==
    IF c \in LowerSet
    THEN Ch(UpperAlpha, CHOOSE i \in 1..Len(LowerAlpha) : Ch(LowerAlpha, i) = c)
    ELSE c

RECURSIVE Lower(_)
Lower(text) ==
    IF text = "" THEN "" ELSE LowerCh(Ch(text, 1)) \o Lower(From(text, 2))

RECURSIVE Upper(_)
Upper(text) ==
    IF text = "" THEN "" ELSE UpperCh(Ch(text, 1)) \o Upper(From(text, 2))

\* the last index of the longest run of characters of S that starts at i
\* (i - 1 when the run is empty): a greedy S* of a pattern
RunEnd(text, i, S) ==
    CHOOSE j \in (i - 1)..Len(text) :
        /\ \A k \in i..j : Ch(text, k) \in S
        /\ j = Len(text) \/ Ch(text, j + 1) \notin S

\* the same for the characters outside S
RunEndNot(text, i, S) ==
    CHOOSE j \in (i - 1)..Len(text) :
        /\ \A k \in i..j : Ch(text, k) \notin S
        /\ j = Len(text) \/ Ch(text, j + 1) \in S

\* str.rstrip(chars)
RStrip(text, S) ==
    SubSeq(text, 1, CHOOSE j \in 0..Len(text) :
                        /\ \A k \in (j + 1)..Len(text) : Ch(text, k) \in S
                        /\ j = 0 \/ Ch(text, j) \notin S)

\* str.strip()
Strip(text) == RStrip(From(text, RunEnd(text, 1, Space) + 1), Space)

\* str.split()
RECURSIVE Split(_)
Split(text) ==
    LET a == RunEnd(text, 1, Space) + 1
        b == RunEndNot(text, a, Space)
    IN  IF a > Len(text) THEN <<>>
        ELSE <<SubSeq(text, a, b)>> \o Split(From(text, b + 1))

\* kw in text
Contains(text, kw) ==
    \E i \in 1..(Len(text) - Len(kw) + 1) : SubSeq(text, i, i + Len(kw) - 1) = kw

\* x in list
InList(x, list) == \E i \in DOMAIN list : list[i] = x

\* any(kw in text for kw in list)
AnyIn(list, text) == \E i \in DOMAIN list : Contains(text, list[i])

\* the least member of a non-empty set of positions
Least(S) == CHOOSE i \in S : \A j \in S : i <= j

\* ------------------------------------------------- classification helpers
\* src/app/main.py line 88-112
is_complaint_or_report_related(message) ==
    AnyIn(complaint_keywords, Lower(message))

\* line 122
message_clean(message) == RStrip(Strip(Lower(message)), {".", "!", ","})

\* line 129-130: words[0] of an empty list raises IndexError
AckRaises(message) ==
    /\ ~InList(message_clean(message), ack_responses)
    /\ Split(message_clean(message)) = <<>>

\* line 115-133; its value where it does not raise
is_acknowledgment(message) ==
    LET words == Split(message_clean(message))
    IN  \/ InList(message_clean(message), ack_responses)
        \/ /\ words # <<>>
           /\ Len(words) <= 3
           /\ InList(words[1], ack_responses)

\* src/app/services/ai_handler.py line 87-111
detect_issue_type(message) ==
    LET msg_lower == Lower(message)
    IN  IF AnyIn(<<"mati", "tidak bisa", "gak bisa", "ga bisa",
                   "no internet", "putus">>, msg_lower)
        THEN "internet_mati"
        ELSE IF AnyIn(<<"lambat", "lemot", "pelan", "slow", "lag",
                        "lelet">>, msg_lower)
        THEN "internet_lambat"
        ELSE IF AnyIn(<<"wifi", "wi-fi", "wireless", "sinyal">>, msg_lower)
        THEN "wifi_bermasalah"
        ELSE "default"

\* ai_handler.py line 113-165
check_still_not_working(message) ==
    LET msg_lower == Lower(message)
        negated == AnyIn(<<"tidak", "gak", "ga ", "belum", "blm">>, msg_lower)
    IN  IF AnyIn(resolved_keywords, msg_lower) /\ ~negated THEN FALSE
        ELSE AnyIn(not_resolved_keywords, msg_lower)

\* ------------------------------------------------------ field extraction
\* [:\s] of the patterns
Sep == {":"} \cup Space

\* (?:ID|id|Id)[:\s]*([A-Za-z0-9]+) matched at position i: where the
\* group starts and ends
IdGroupStart(text, i) == RunEnd(text, i + 2, Sep) + 1

IdGroupEnd(text, i) == RunEnd(text, IdGroupStart(text, i), Alnum)

IdAt(text, i) ==
    /\ SubSeq(text, i, i + 1) \in {"ID", "id", "Id"}
    /\ IdGroupEnd(text, i) >= IdGroupStart(text, i)

IdPlaces(text) == {i \in 1..(Len(text) - 1) : IdAt(text, i)}

\* line 417, 424-425: id_match.group(1).upper(), "" where nothing matches
labeled_id(message) ==
    IF IdPlaces(message) = {} THEN ""
    ELSE LET i == Least(IdPlaces(message))
         IN  Upper(SubSeq(message, IdGroupStart(message, i),
                          IdGroupEnd(message, i)))

\* the description's label, in any case, at position i
LabelAt(text, i) ==
    {l \in {"gangguan", "detail", "masalah"} :
        /\ i + Len(l) - 1 <= Len(text)
        /\ Lower(SubSeq(text, i, i + Len(l) - 1)) = l}

\* (?:Gangguan|...|masalah)[:\s]*(.+) with DOTALL at position i: the
\* group starts after the separators, or gives the last separator back
\* to (.+) when they run to the end of the text
DescGroupStart(text, i) ==
    LET p == i + Len(CHOOSE l \in LabelAt(text, i) : TRUE)
        j == RunEnd(text, p, Sep)
    IN  IF j < Len(text) THEN j + 1 ELSE IF j >= p THEN j ELSE 0

DescPlaces(text) ==
    {i \in 1..Len(text) : LabelAt(text, i) # {} /\ DescGroupStart(text, i) > 0}

\* line 418-422, 427-428: desc_match.group(1).strip(), "" without a match
labeled_desc(message) ==
    IF DescPlaces(message) = {} THEN ""
    ELSE Strip(From(message, DescGroupStart(message, Least(DescPlaces(message)))))

\* line 171: [A-Za-z]\d{3,}[A-Za-z]* at position i, the end of the match
\* (0 without a match)
P1End(u, i) ==
    LET d == RunEnd(u, i + 1, Digit)
    IN  IF Ch(u, i) \in Alpha /\ d - i >= 3 THEN RunEnd(u, d + 1, Alpha) ELSE 0

\* line 172: \d{3,}[A-Za-z]+
P2End(u, i) ==
    LET d == RunEnd(u, i, Digit)
        a == RunEnd(u, d + 1, Alpha)
    IN  IF d - i + 1 >= 3 /\ a > d THEN a ELSE 0

\* line 173: [A-Za-z]{2,}\d{3,}
P3End(u, i) ==
    LET a == RunEnd(u, i, Alpha)
        d == RunEnd(u, a + 1, Digit)
    IN  IF a - i + 1 >= 2 /\ d - a >= 3 THEN d ELSE 0

\* line 167-181: the first pattern that matches, leftmost; "" is None
extract_customer_id(message) ==
    LET u == Upper(message)
        at1 == {i \in 1..Len(u) : P1End(u, i) > 0}
        at2 == {i \in 1..Len(u) : P2End(u, i) > 0}
        at3 == {i \in 1..Len(u) : P3End(u, i) > 0}
    IN  IF at1 # {} THEN SubSeq(u, Least(at1), P1End(u, Least(at1)))
        ELSE IF at2 # {} THEN SubSeq(u, Least(at2), P2End(u, Least(at2)))
        ELSE IF at3 # {} THEN SubSeq(u, Least(at3), P3End(u, Least(at3)))
        ELSE ""

\* line 437: re.sub of (?:ID|id|Id)[:\s]*[A-Za-z0-9]+[,\s]* by ""
RECURSIVE WithoutId(_)
WithoutId(text) ==
    IF IdPlaces(text) = {} THEN text
    ELSE LET i == Least(IdPlaces(text))
             e == RunEnd(text, IdGroupEnd(text, i) + 1, {","} \cup Space)
         IN  SubSeq(text, 1, i - 1) \o WithoutId(From(text, e + 1))

\* line 424-432
extracted_id(message) ==
    IF labeled_id(message) # "" THEN labeled_id(message)
    ELSE extract_customer_id(message)

\* line 427-440
extracted_desc(message) ==
    IF labeled_desc(message) = "" /\ extracted_id(message) # ""
       /\ Len(Strip(WithoutId(message))) > 10
    THEN Strip(WithoutId(message))
    ELSE labeled_desc(message)

\* src/app/services/ai_handler.py line 587, 619:
\* any(keyword in msg_lower for keyword in yes_keywords)
is_yes(message) == AnyIn(yes_keywords, Strip(Lower(message)))

\* line 620
is_no(message) == AnyIn(no_keywords, Strip(Lower(message)))

\* ------------------------------------------------ the texts of the model
\* the message texts the customers send
Messages ==
    {"siap", "Ya", "betul", "tidak", "halo", "internet mati", "!",
     "ID: C650AD\nGangguan: mati total"}

\* the texts process_message is applied to
Texts ==
    Messages \cup {"masih mati kak", "ID: C650AD\nGangguan: mati",
                   "Gangguan: mati total"}

\* what the helpers compute for each of them
AckRaisesOf == [message \in Texts |-> AckRaises(message)]

IsAcknowledgmentOf ==
    [message \in Texts |->
        ~AckRaises(message) /\ is_acknowledgment(message)]

IsReportRelatedOf ==
    [message \in Texts |-> is_complaint_or_report_related(message)]

IssueTypeOf == [message \in Texts |-> detect_issue_type(message)]

StillNotWorkingOf ==
    [message \in Texts |-> check_still_not_working(message)]

CustomerIdOf == [message \in Texts |-> extract_customer_id(message)]

ExtractedIdOf == [message \in Texts |-> extracted_id(message)]

ExtractedDescOf == [message \in Texts |-> extracted_desc(message)]

IsYesOf == [message \in Texts |-> is_yes(message)]

IsNoOf == [message \in Texts |-> is_no(message)]

\* ---------------------------------------------------------- dictionaries
\* dict.get(key, default)
Get(d, k, default) == IF k \in DOMAIN d THEN d[k] ELSE default

\* Python's None where the model stores it in a text field
None == "None"

\* ------------------------------------------------------------- sessions
\* src/app/services/session_manager.py line 27-31 and 87: the copy is
\* shallow, so the collected_data of every default session is the one
\* dictionary of the class
DEFAULT_SESSION ==
    [state |-> "detect", collected_data |-> default_collected_data,
     message_count |-> 0]

\* line 69-87; json.loads(json.dumps(s)) gives back a dictionary equal to
\* s for the texts, booleans, numbers and dictionaries a session holds
get_session(customer_id) ==
    IF customer_id \in DOMAIN sessions THEN sessions[customer_id]
    ELSE DEFAULT_SESSION

\* line 89-108
update_session(store, customer_id, session_data) ==
    Put(store, customer_id, session_data)

\* ----------------------------------------------------------------- tags
NoTag == [name |-> ""]

\* src/app/services/qiscus_service.py line 25
TAG_AI_ESCALATED == "Direspon AI"

\* line 19
TAG_EXPIRY_DAYS == 2

\* mutant: the tag is taken for expired on the day the threshold is reached
check_escalated_tag_early(room_id) ==
    IF room_tags[room_id].name = TAG_AI_ESCALATED
    THEN [has_tag |-> TRUE,
          is_expired |-> today >= room_tags[room_id].room_tag_created
                                      + TAG_EXPIRY_DAYS,
          tag_id |-> room_tags[room_id].id]
    ELSE [has_tag |-> FALSE, is_expired |-> FALSE, tag_id |-> ""]

\* line 104-142
check_escalated_tag(room_id) ==
    IF room_tags[room_id].name = TAG_AI_ESCALATED
    THEN [has_tag |-> TRUE,
          is_expired |-> today > room_tags[room_id].room_tag_created
                                     + TAG_EXPIRY_DAYS,
          tag_id |-> room_tags[room_id].id]
    ELSE [has_tag |-> FALSE, is_expired |-> FALSE, tag_id |-> ""]

\* line 149-168 as the Qiscus server answers it: the tag is created now
add_room_tag(tags, room_id, tag) ==
    [tags EXCEPT ![room_id] =
        [name |-> tag, id |-> "t", room_tag_created |-> today]]

\* line 170-191
remove_room_tag(tags, room_id, tag_id) ==
    IF tags[room_id].name # "" /\ tags[room_id].id = tag_id
    THEN [tags EXCEPT ![room_id] = NoTag] ELSE tags

\* ------------------------------------------------------ conversation engine
\* src/app/services/ai_handler.py line 19-27
STATE_GREETING == "greeting"

STATE_CHECK_RESOLVED == "check_resolved"

STATE_COLLECT_FORM == "collect_form"

STATE_VALIDATING_CUSTOMER == "validating_customer"

STATE_CONFIRM_DATA == "confirm_data"

STATE_COMPLETED == "completed"

EngineStates ==
    {STATE_GREETING, STATE_CHECK_RESOLVED, STATE_COLLECT_FORM,
     STATE_VALIDATING_CUSTOMER, STATE_CONFIRM_DATA, STATE_COMPLETED}

\* what the language model answers in one call of process_message: the
\* classification asked first, the one asked second (_handle_completed
\* asks new_issue and then has_issue), each "true", "false" or "error"
\* (a failed call or an unparsable answer) or "missing" (a JSON object
\* without the key), and the generated text
Answers == {"true", "false", "error", "missing"}

AiTexts == {"Halo, ada yang bisa dibantu?"}

Oracles ==
    {o \in [first : Answers, second : Answers, text : AiTexts] :
        o.first # "true" => o.second = "error"}

\* line 289, 364, 685: the handlers of the states collect_form,
\* validating_customer and confirm_data do not call the language model
NoOracle == [first |-> "error", second |-> "error", text |-> ""]

OraclesFor(session) ==
    IF Get(session, "state", STATE_GREETING) \in
          {STATE_COLLECT_FORM, STATE_VALIDATING_CUSTOMER, STATE_CONFIRM_DATA}
    THEN {NoOracle} ELSE Oracles

\* line 278-343
handle_greeting(customer_id, message, collected_data, has_issue, text) ==
    IF has_issue = "true"
    THEN [reply |-> text,
          session |->
            [state |-> STATE_CHECK_RESOLVED,
             collected_data |->
                Put(Put(Put(collected_data, "initial_complaint", message),
                        "issue_type", IssueTypeOf[message]),
                    "troubleshooting_given", TRUE)]]
    ELSE [reply |-> text,
          session |-> [state |-> STATE_GREETING,
                       collected_data |-> collected_data]]

FormText == "Mohon copy-paste format di bawah ini: ID: Gangguan:"

\* mutant: a customer whose problem persists is asked again
handle_check_resolved_stays(customer_id, message, collected_data, resolved, text) ==
    LET is_resolved == IF resolved = "error"
                       THEN ~StillNotWorkingOf[message]
                       ELSE resolved = "true"
    IN  IF is_resolved
        THEN [reply |-> text,
              session |->
                [state |-> STATE_COMPLETED,
                 collected_data |->
                    Put(collected_data, "resolved_by_troubleshooting", TRUE)]]
        ELSE [reply |-> text,
              session |-> [state |-> STATE_CHECK_RESOLVED,
                           collected_data |-> collected_data]]

\* line 345-405
handle_check_resolved(customer_id, message, collected_data, resolved, text) ==
    LET is_resolved == IF resolved = "error"
                       THEN ~StillNotWorkingOf[message]
                       ELSE resolved = "true"
    IN  IF is_resolved
        THEN [reply |-> text,
              session |->
                [state |-> STATE_COMPLETED,
                 collected_data |->
                    Put(collected_data, "resolved_by_troubleshooting", TRUE)]]
        ELSE [reply |-> FormText,
              session |-> [state |-> STATE_COLLECT_FORM,
                           collected_data |-> collected_data]]

\* mutant: a description of any length completes the form
handle_collect_form_no_min(customer_id, message, collected_data) ==
    LET id == ExtractedIdOf[message]
        desc == ExtractedDescOf[message]
    IN  IF id = ""
        THEN [reply |-> "Hmm, saya tidak menemukan ID Pelanggan di pesanmu",
              session |-> [state |-> STATE_COLLECT_FORM,
                           collected_data |-> collected_data]]
        ELSE IF desc = ""
        THEN [reply |-> "ID Pelanggan: " \o id
                           \o " Tapi detail gangguannya belum ada",
              session |->
                [state |-> STATE_COLLECT_FORM,
                 collected_data |->
                    Put(collected_data, "customer_references_number", id)]]
        ELSE [reply |-> "Sedang memverifikasi ID Pelanggan " \o id,
              session |->
                [state |-> STATE_VALIDATING_CUSTOMER,
                 collected_data |->
                    Put(Put(Put(collected_data,
                                "customer_references_number", id),
                            "description", desc),
                        "problem_time", today)],
              needs_validation |-> TRUE,
              customer_ref_id |-> id]

\* line 407-492
handle_collect_form(customer_id, message, collected_data) ==
    LET id == ExtractedIdOf[message]
        desc == ExtractedDescOf[message]
    IN  IF id = ""
        THEN [reply |-> "Hmm, saya tidak menemukan ID Pelanggan di pesanmu",
              session |-> [state |-> STATE_COLLECT_FORM,
                           collected_data |-> collected_data]]
        ELSE IF desc = "" \/ Len(desc) < 5
        THEN [reply |-> "ID Pelanggan: " \o id
                           \o " Tapi detail gangguannya belum ada",
              session |->
                [state |-> STATE_COLLECT_FORM,
                 collected_data |->
                    Put(collected_data, "customer_references_number", id)]]
        ELSE [reply |-> "Sedang memverifikasi ID Pelanggan " \o id,
              session |->
                [state |-> STATE_VALIDATING_CUSTOMER,
                 collected_data |->
                    Put(Put(Put(collected_data,
                                "customer_references_number", id),
                            "description", desc),
                        "problem_time", today)],
              needs_validation |-> TRUE,
              customer_ref_id |-> id]

\* mutant: the result not found stays recorded in the session
handle_validating_customer_keeps_flag(customer_id, message, collected_data) ==
    IF /\ "customer_validated" \in DOMAIN collected_data
       /\ collected_data["customer_validated"] = TRUE
    THEN LET customer_data == Get(collected_data, "customer_data", <<>>)
             customer_name_from_system ==
                Get(customer_data, "name",
                    Get(collected_data, "customer_name", "-"))
         IN  [reply |-> "Ringkasan Laporan: "
                           \o Get(collected_data,
                                  "customer_references_number", "-"),
              session |->
                [state |-> STATE_CONFIRM_DATA,
                 collected_data |->
                    IF customer_name_from_system # ""
                    THEN Put(collected_data, "customer_name",
                             customer_name_from_system)
                    ELSE collected_data]]
    ELSE IF /\ "customer_validated" \in DOMAIN collected_data
            /\ collected_data["customer_validated"] = FALSE
    THEN [reply |-> "Maaf, ID Pelanggan tidak ditemukan di sistem kami",
          session |->
            [state |-> STATE_COLLECT_FORM,
             collected_data |->
                Pop(collected_data, "customer_references_number")]]
    ELSE IF CustomerIdOf[message] # ""
    THEN [reply |-> "Sedang memverifikasi ID Pelanggan "
                       \o CustomerIdOf[message],
          session |->
            [state |-> STATE_VALIDATING_CUSTOMER,
             collected_data |->
                Put(collected_data, "customer_references_number",
                    CustomerIdOf[message])],
          needs_validation |-> TRUE,
          customer_ref_id |-> CustomerIdOf[message]]
    ELSE [reply |-> "Mohon masukkan ID Pelanggan Anda",
          session |-> [state |-> STATE_COLLECT_FORM,
                       collected_data |-> collected_data]]

\* line 494-580
handle_validating_customer(customer_id, message, collected_data) ==
    IF /\ "customer_validated" \in DOMAIN collected_data
       /\ collected_data["customer_validated"] = TRUE
    THEN LET customer_data == Get(collected_data, "customer_data", <<>>)
             customer_name_from_system ==
                Get(customer_data, "name",
                    Get(collected_data, "customer_name", "-"))
         IN  [reply |-> "Ringkasan Laporan: "
                           \o Get(collected_data,
                                  "customer_references_number", "-"),
              session |->
                [state |-> STATE_CONFIRM_DATA,
                 collected_data |->
                    IF customer_name_from_system # ""
                    THEN Put(collected_data, "customer_name",
                             customer_name_from_system)
                    ELSE collected_data]]
    ELSE IF /\ "customer_validated" \in DOMAIN collected_data
            /\ collected_data["customer_validated"] = FALSE
    THEN [reply |-> "Maaf, ID Pelanggan tidak ditemukan di sistem kami",
          session |->
            [state |-> STATE_COLLECT_FORM,
             collected_data |->
                Pop(Pop(collected_data, "customer_references_number"),
                    "customer_validated")]]
    ELSE IF CustomerIdOf[message] # ""
    THEN [reply |-> "Sedang memverifikasi ID Pelanggan "
                       \o CustomerIdOf[message],
          session |->
            [state |-> STATE_VALIDATING_CUSTOMER,
             collected_data |->
                Put(collected_data, "customer_references_number",
                    CustomerIdOf[message])],
          needs_validation |-> TRUE,
          customer_ref_id |-> CustomerIdOf[message]]
    ELSE [reply |-> "Mohon masukkan ID Pelanggan Anda",
          session |-> [state |-> STATE_COLLECT_FORM,
                       collected_data |-> collected_data]]

\* line 718-742
prepare_report_data(collected_data, customer_id) ==
    LET customer_data == Get(collected_data, "customer_data", <<>>)
        detail == Get(collected_data, "description", "")
    IN  [customer_id |-> Get(customer_data, "id", None),
         customer_site_id |-> Get(customer_data, "site_id", None),
         customer_name |-> Get(collected_data, "customer_name", "Unknown"),
         customer_phone |-> Get(collected_data, "phone", customer_id),
         customer_references_number |->
            Get(collected_data, "customer_references_number", None),
         description |->
            IF Get(collected_data, "initial_complaint", "") # ""
            THEN "Keluhan awal: " \o collected_data["initial_complaint"]
                    \o "\n\nDetail: " \o detail
            ELSE detail,
         problem_time |-> Get(collected_data, "problem_time", 0),
         qiscus_session_id |-> customer_id]

\* line 630-632
ReportSentText == "Laporan berhasil dikirim!"

\* mutant: the recorded validation result survives the correction
keep_keys_validated ==
    {"customer_name", "phone", "initial_complaint", "issue_type",
     "troubleshooting_given", "customer_validated"}

\* line 644-650
keep_keys ==
    {"customer_name", "phone", "initial_complaint", "issue_type",
     "troubleshooting_given"}

\* line 582-674
handle_confirmation(customer_id, message, collected_data) ==
    IF IsYesOf[message] /\ ~IsNoOf[message]
    THEN [reply |-> ReportSentText,
          session |-> [state |-> STATE_COMPLETED,
                       collected_data |-> collected_data],
          report_created |-> TRUE,
          report_data |-> prepare_report_data(collected_data, customer_id)]
    ELSE IF IsNoOf[message]
    THEN [reply |-> "Baik, silakan isi ulang dengan format",
          session |->
            [state |-> STATE_COLLECT_FORM,
             collected_data |->
                [k \in DOMAIN collected_data \cap keep_keys |->
                    collected_data[k]]]]
    ELSE [reply |-> "Mohon balas Ya jika data sudah benar, atau Tidak",
          session |-> [state |-> STATE_CONFIRM_DATA,
                       collected_data |-> collected_data]]

\* mutant: the new issue starts from the data of the closed report
handle_completed_keeps_data(customer_id, message, collected_data, oracle) ==
    IF oracle.first = "true"
    THEN handle_greeting(customer_id, message, collected_data,
                         oracle.second, oracle.text)
    ELSE [reply |-> "Ada yang bisa saya bantu lagi?",
          session |-> [state |-> STATE_COMPLETED,
                       collected_data |-> collected_data]]

\* line 676-716
handle_completed(customer_id, message, collected_data, oracle) ==
    IF oracle.first = "true"
    THEN handle_greeting(customer_id, message,
            [customer_name |-> Get(collected_data, "customer_name", None),
             phone |-> Get(collected_data, "phone", None)],
            oracle.second, oracle.text)
    ELSE [reply |-> "Ada yang bisa saya bantu lagi?",
          session |-> [state |-> STATE_COMPLETED,
                       collected_data |-> collected_data]]

\* line 239-247: the collected data after the customer's name and number
\* are stored in it (in place: the caller's dictionary changes too)
WithCustomerInfo(collected_data, customer_id, customer_name) ==
    LET named == IF customer_name # "" /\ "customer_name" \notin DOMAIN collected_data
                 THEN Put(collected_data, "customer_name", customer_name)
                 ELSE collected_data
    IN  IF customer_id # "" /\ "phone" \notin DOMAIN named
        THEN Put(named, "phone", customer_id) ELSE named

\* line 270-271: the else branch of the routing
RouteUnknown(customer_id, message, current_state, oracle) ==
    handle_greeting(customer_id, message, <<>>, oracle.first, oracle.text)

\* line 249-271
Route(customer_id, message, current_state, collected_data, oracle) ==
    IF current_state = STATE_GREETING
    THEN handle_greeting(customer_id, message, collected_data,
                         oracle.first, oracle.text)
    ELSE IF current_state = STATE_CHECK_RESOLVED
    THEN handle_check_resolved(customer_id, message, collected_data,
                               oracle.first, oracle.text)
    ELSE IF current_state = STATE_COLLECT_FORM
    THEN handle_collect_form(customer_id, message, collected_data)
    ELSE IF current_state = STATE_VALIDATING_CUSTOMER
    THEN handle_validating_customer(customer_id, message, collected_data)
    ELSE IF current_state = STATE_CONFIRM_DATA
    THEN handle_confirmation(customer_id, message, collected_data)
    ELSE IF current_state = STATE_COMPLETED
    THEN handle_completed(customer_id, message, collected_data, oracle)
    ELSE RouteUnknown(customer_id, message, current_state, oracle)

\* line 230-276
process_message(customer_id, customer_name, message, session, oracle) ==
    LET result ==
            Route(customer_id, message,
                  Get(session, "state", STATE_GREETING),
                  WithCustomerInfo(Get(session, "collected_data", <<>>),
                                   customer_id, customer_name),
                  oracle)
    IN  [result EXCEPT !.session =
            Put(result.session, "message_count",
                Get(session, "message_count", 0) + 1)]

\* ------------------------------------------------------ escalation overlay
\* src/app/main.py line 267-270, 282-285: the metadata the webhook stores
\* with the customer's messages
customer_name(customer_id) == IF customer_id = "c1" THEN "Ani" ELSE "Budi"

room_id(customer_id) == "room-" \o customer_id

Rooms == {room_id(c) : c \in Customers}

\* line 155
AckReply == "Siap kak!"

\* line 188
PendingReply == "Laporan kakak masih dalam proses penanganan"

\* line 161-168
TagCheck(customer_id) ==
    IF room_id(customer_id) # "" THEN check_escalated_tag(room_id(customer_id))
    ELSE [has_tag |-> FALSE, is_expired |-> FALSE, tag_id |-> ""]

\* line 171
TagExpired(customer_id) ==
    /\ TagCheck(customer_id).has_tag
    /\ TagCheck(customer_id).is_expired
    /\ TagCheck(customer_id).tag_id # ""

\* line 174: has_tag after the expired tag is removed
HasTag(customer_id) ==
    TagCheck(customer_id).has_tag /\ ~TagExpired(customer_id)

\* line 180
HasFreshTag(customer_id) ==
    HasTag(customer_id) /\ ~TagCheck(customer_id).is_expired

\* line 175, 203
ResetSession == [state |-> "detect", message_count |-> 0]

\* line 196-198
Marked(session) ==
    Put(session, "collected_data",
        Put(Get(session, "collected_data", <<>>), "has_pending_report", TRUE))

\* line 148, 171-198: the session after the tag is looked at
SessionAfterTag(customer_id, message) ==
    IF TagExpired(customer_id) THEN ResetSession
    ELSE IF HasFreshTag(customer_id)
            /\ ~IsReportRelatedOf[message]
    THEN Marked(get_session(customer_id))
    ELSE get_session(customer_id)

\* line 201
WasEscalated(customer_id, message) ==
    /\ ~HasTag(customer_id)
    /\ Get(SessionAfterTag(customer_id, message), "state", None) = "escalated"

\* line 201-212: the session process_message is given
EngineSession(customer_id, message) ==
    IF WasEscalated(customer_id, message) THEN ResetSession
    ELSE SessionAfterTag(customer_id, message)

\* line 207-212
AiResponse(customer_id, message, oracle) ==
    process_message(customer_id, customer_name(customer_id), message,
                    EngineSession(customer_id, message), oracle)

\* line 217: ai_response.get("ai_stop")
ai_stop(ai_response) ==
    "ai_stop" \in DOMAIN ai_response /\ ai_response["ai_stop"] = TRUE

\* mutant: an acknowledgment goes on to the tag check and the engine
StepOfNoBypass(customer_id, message) ==
    IF AckRaisesOf[message] THEN "raise"
    ELSE IF HasFreshTag(customer_id)
            /\ IsReportRelatedOf[message] THEN "intercept"
    ELSE "engine"

\* line 151, 159, 180-192: where the handler ends
StepOf(customer_id, message) ==
    IF AckRaisesOf[message] THEN "raise"
    ELSE IF IsAcknowledgmentOf[message] THEN "ack"
    ELSE IF HasFreshTag(customer_id)
            /\ IsReportRelatedOf[message] THEN "intercept"
    ELSE "engine"

\* line 173, 219-220: the tags after a run that reached the engine
TagsAfter(customer_id, ai_response) ==
    LET removed == IF TagExpired(customer_id)
                   THEN remove_room_tag(room_tags, room_id(customer_id),
                                        TagCheck(customer_id).tag_id)
                   ELSE room_tags
    IN  IF ai_stop(ai_response) /\ room_id(customer_id) # ""
        THEN add_room_tag(removed, room_id(customer_id), TAG_AI_ESCALATED)
        ELSE removed

\* line 176, 204, 222, 226: the sessions update_session is called with
Writes(customer_id, message, ai_response) ==
    (IF TagExpired(customer_id) THEN <<ResetSession>> ELSE <<>>)
    \o (IF WasEscalated(customer_id, message) THEN <<ResetSession>> ELSE <<>>)
    \o <<ai_response.session>>

\* line 153-157, 185-189: the reply of a run that ends before the engine
EarlySent(customer_id, message) ==
    IF StepOf(customer_id, message) = "ack" /\ room_id(customer_id) # ""
    THEN <<AckReply>>
    ELSE IF StepOf(customer_id, message) = "intercept"
    THEN <<PendingReply>>
    ELSE <<>>

\* line 217-232: the reply sent after process_message returns
EngineSent(customer_id, ai_response) ==
    IF /\ ~ai_stop(ai_response)
       /\ room_id(customer_id) # ""
       /\ ai_response.reply # ""
    THEN <<ai_response.reply>>
    ELSE <<>>

\* the dictionary of DEFAULT_SESSION after the handler: a customer without
\* a stored session is handled on a shallow copy, whose collected_data
\* main.py line 198 and ai_handler.py line 244-247 change in place
DefaultAfter(customer_id, message) ==
    IF customer_id \notin DOMAIN sessions /\ ~TagExpired(customer_id)
    THEN WithCustomerInfo(EngineSession(customer_id, message).collected_data,
                          customer_id, customer_name(customer_id))
    ELSE default_collected_data

\* history: what the run of the handler that has just ended did (the
\* customer and the message, the tag and the day it found, the session
\* get_session returned, the sessions given to and returned by the engine,
\* the sessions written, the replies sent, the reports submitted); any
\* other step puts NoDispatch back
NoDispatch ==
    [cid |-> "", message |-> "", step |-> "none", tag |-> NoTag, day |-> 0,
     before |-> <<>>, given |-> <<>>, results |-> <<>>, writes |-> <<>>,
     sent |-> <<>>, tag_added |-> FALSE, tag_removed |-> FALSE,
     reports |-> <<>>]

\* line 138-232: a run of the handler that ends before the engine
EarlyReturn(customer_id, message) ==
    /\ StepOf(customer_id, message) # "engine"
    /\ UNCHANGED <<sessions, default_collected_data, room_tags>>
    /\ last' = [NoDispatch EXCEPT
                  !.cid = customer_id, !.message = message,
                  !.step = StepOf(customer_id, message),
                  !.tag = room_tags[room_id(customer_id)],
                  !.day = today,
                  !.before = <<get_session(customer_id)>>,
                  !.sent = EarlySent(customer_id, message)]

\* line 138-232: a run of the handler that reaches process_message
EngineRun(customer_id, message, oracle) ==
    LET ai_response == AiResponse(customer_id, message, oracle)
    IN  /\ StepOf(customer_id, message) = "engine"
        /\ sessions' = update_session(sessions, customer_id,
                                      ai_response.session)
        /\ default_collected_data' = DefaultAfter(customer_id, message)
        /\ room_tags' = TagsAfter(customer_id, ai_response)
        /\ last' = [cid |-> customer_id, message |-> message,
                    step |-> "engine",
                    tag |-> room_tags[room_id(customer_id)], day |-> today,
                    before |-> <<get_session(customer_id)>>,
                    given |-> <<EngineSession(customer_id, message)>>,
                    results |-> <<ai_response>>,
                    writes |-> Writes(customer_id, message, ai_response),
                    sent |-> EngineSent(customer_id, ai_response),
                    tag_added |-> ai_stop(ai_response)
                                  /\ room_id(customer_id) # "",
                    tag_removed |-> TagExpired(customer_id),
                    reports |-> <<>>]

\* line 138-232
process_buffered_message(customer_id, message) ==
    /\ nDispatch < MaxDispatch
    /\ nDispatch' = nDispatch + 1
    /\ \/ EarlyReturn(customer_id, message)
       \/ \E oracle \in OraclesFor(EngineSession(customer_id, message)) :
             EngineRun(customer_id, message, oracle)
    /\ UNCHANGED <<today>>

Dispatch ==
    \E customer_id \in Customers, message \in Messages :
        process_buffered_message(customer_id, message)

\* src/app/main.py line 339-344: DELETE /session/{customer_id}; the buffer
\* of this part holds nothing to clear
delete_session(customer_id) ==
    /\ nDispatch < MaxDispatch
    /\ customer_id \in DOMAIN sessions
    /\ sessions' = Pop(sessions, customer_id)
    /\ last' = NoDispatch
    /\ UNCHANGED <<default_collected_data, room_tags, today, nDispatch>>

DeleteSession == \E customer_id \in Customers : delete_session(customer_id)

\* a human agent tags the conversation in Qiscus
AgentAddsTag ==
    \E c \in Customers :
        /\ nDispatch < MaxDispatch
        /\ room_tags[room_id(c)] = NoTag
        /\ room_tags' = add_room_tag(room_tags, room_id(c), TAG_AI_ESCALATED)
        /\ last' = NoDispatch
        /\ UNCHANGED <<sessions, default_collected_data, today, nDispatch>>

\* a human agent closes the report: the tag is removed in Qiscus
AgentRemovesTag ==
    \E c \in Customers :
        /\ nDispatch < MaxDispatch
        /\ room_tags[room_id(c)] # NoTag
        /\ room_tags' = [room_tags EXCEPT ![room_id(c)] = NoTag]
        /\ last' = NoDispatch
        /\ UNCHANGED <<sessions, default_collected_data, today, nDispatch>>

\* datetime.now() reaches the next day
DayPasses ==
    /\ nDispatch < MaxDispatch
    /\ today < MaxDay
    /\ today' = today + 1
    /\ last' = NoDispatch
    /\ UNCHANGED <<sessions, default_collected_data, room_tags, nDispatch>>


\* ------------------------------------------------------- specification
\* line 30-33: MessageBuffer.__init__
BufferInit ==
    /\ now = 0
    /\ buffers = <<>>
    /\ active_processors = {}
    /\ tasks = <<>>
    /\ nextTask = 0
    /\ calls = <<>>
    /\ accepted = <<>>
    /\ cleared = {}
    /\ nClears = 0

\* the service starts: no default session was handed out, no room is
\* tagged, the handler has not run
OverlayStart ==
    /\ default_collected_data = <<>>
    /\ room_tags = [r \in Rooms |-> NoTag]
    /\ today = 0
    /\ last = NoDispatch
    /\ nDispatch = 0
    /\ use_redis = TRUE
    /\ clock = 0
    /\ written = [c \in Customers |-> -1]
    /\ sm_last = [op |-> "none", cid |-> ""]
    /\ call = [customer_id |-> ""]

\* src/app/main.py line 56-59: the services of the application, with an
\* empty session store
Init ==
    /\ BufferInit
    /\ OverlayStart
    /\ sessions = <<>>

Next ==
    \/ AddMessage /\ UNCHANGED <<ovars, xvars>>
    \/ (\E t \in 1..MaxTasks : WatcherWake(t)) /\ UNCHANGED <<ovars, xvars>>
    \/ (\E t \in 1..MaxTasks : HandlerReturn(t)) /\ UNCHANGED <<ovars, xvars>>
    \/ (\E t \in 1..MaxTasks : HandlerRaise(t)) /\ UNCHANGED <<ovars, xvars>>
    \/ Clear /\ UNCHANGED <<ovars, xvars>>
    \/ clear_all /\ UNCHANGED <<ovars, xvars>>
    \/ Tick /\ UNCHANGED <<ovars, xvars>>

Spec == Init /\ [][Next]_vars

\* ------------------------------------------- specification of the overlay
\* sessions an earlier run of the service left in the store (Redis keeps
\* them over a restart), one for each state of the engine: after a
\* greeting, after a complaint, with the form sent, with the form filled,
\* with the customer validated, and closed
ComplaintData ==
    [initial_complaint |-> "internet mati", issue_type |-> "internet_mati",
     troubleshooting_given |-> TRUE]

FormData(customer_id) ==
    Put(Put(Put(WithCustomerInfo(ComplaintData, customer_id,
                                 customer_name(customer_id)),
                "customer_references_number", "C650AD"),
            "description", "mati total"),
        "problem_time", 0)

ValidatedData(customer_id) ==
    Put(Put(FormData(customer_id), "customer_validated", TRUE),
        "customer_data",
        [id |-> "7", site_id |-> "s1", name |-> customer_name(customer_id)])

StartSessions(customer_id) ==
    {[state |-> STATE_GREETING, collected_data |-> <<>>,
      message_count |-> 1],
     [state |-> STATE_CHECK_RESOLVED, collected_data |-> ComplaintData,
      message_count |-> 1],
     [state |-> STATE_COLLECT_FORM,
      collected_data |-> WithCustomerInfo(ComplaintData, customer_id,
                                          customer_name(customer_id)),
      message_count |-> 1],
     [state |-> STATE_VALIDATING_CUSTOMER,
      collected_data |-> FormData(customer_id), message_count |-> 1],
     [state |-> STATE_CONFIRM_DATA,
      collected_data |-> ValidatedData(customer_id), message_count |-> 1],
     [state |-> STATE_COMPLETED,
      collected_data |-> ValidatedData(customer_id), message_count |-> 1]}

\* the store is empty at the start or holds one session of customer c1:
\* one of StartSessions, or the session a run on "halo" leaves from the
\* first of them while the room carries a fresh tag (main.py line 196-198)
StartStores ==
    {<<>>} \cup {Put(<<>>, "c1", s) : s \in StartSessions("c1")}
    \cup {Put(<<>>, "c1",
              [state |-> STATE_GREETING,
               collected_data |->
                  [customer_name |-> "Ani", phone |-> "c1",
                   has_pending_report |-> TRUE],
               message_count |-> 2])}

OverlayInit ==
    /\ BufferInit
    /\ OverlayStart
    /\ sessions \in StartStores

OverlayNext ==
    \/ Dispatch /\ UNCHANGED <<bvars, xvars>>
    \/ DeleteSession /\ UNCHANGED <<bvars, xvars>>
    \/ AgentAddsTag /\ UNCHANGED <<bvars, xvars>>
    \/ AgentRemovesTag /\ UNCHANGED <<bvars, xvars>>
    \/ DayPasses /\ UNCHANGED <<bvars, xvars>>

OverlaySpec == OverlayInit /\ [][OverlayNext]_vars

\* ------------------------------------------- specification of the store
\* src/app/services/session_manager.py line 89-108: update_session writes
\* the session; SETEX restarts the time-to-live of the key, the in-memory
\* dictionary has none
UpdateSession ==
    \E customer_id \in Customers,
       session_data \in {s \in StartSessions("c1") :
                            s.state \in {STATE_GREETING, STATE_COLLECT_FORM}} :
        /\ sessions' = update_session(sessions, customer_id, session_data)
        /\ written' = [written EXCEPT ![customer_id] = clock]
        /\ sm_last' = [op |-> "update", cid |-> customer_id,
                       prev |-> <<sm_last.op, sm_last.cid>>]
        /\ UNCHANGED <<use_redis, clock>>

\* mutant: deleting a session that is not stored is reported as a failure
DeleteResultStrict(store, customer_id) ==
    [store |-> Pop(store, customer_id),
     success |-> customer_id \in DOMAIN store]

\* line 110-125: DEL of Redis and dict.pop(key, None) both accept a key
\* that is not stored; delete_session returns True
DeleteResult(store, customer_id) ==
    [store |-> Pop(store, customer_id), success |-> TRUE]

\* src/app/main.py line 339-344, DELETE /session/{customer_id}, for any
\* customer id, stored or not; the message buffer holds nothing in this
\* specification and message_buffer.clear leaves it as it is
StoreDelete ==
    \E customer_id \in Customers :
        LET r == DeleteResult(sessions, customer_id)
        IN  /\ sessions' = r.store
            /\ written' = [written EXCEPT ![customer_id] = -1]
            /\ sm_last' = [op |-> "delete", cid |-> customer_id,
                           status |-> IF r.success THEN "deleted"
                                      ELSE "not_found",
                           before |-> sessions,
                           prev |-> <<sm_last.op, sm_last.cid>>]
            /\ UNCHANGED <<use_redis, clock>>

\* a tick of the store's clock: Redis drops the keys whose time-to-live
\* has run out, session_ttl ticks after their last write
ClockTick ==
    /\ clock < MaxClock
    /\ clock' = clock + 1
    /\ sessions' =
          IF use_redis
          THEN [c \in {c \in DOMAIN sessions :
                          clock + 1 < written[c] + session_ttl} |->
                    sessions[c]]
          ELSE sessions
    /\ sm_last' = [op |-> "none", cid |-> ""]
    /\ UNCHANGED <<use_redis, written>>

\* line 33-63: Redis answers the ping or the manager falls back to the
\* dictionary; the store holds no session
StoreInit ==
    /\ BufferInit
    /\ default_collected_data = <<>>
    /\ room_tags = [r \in Rooms |-> NoTag]
    /\ today = 0
    /\ last = NoDispatch
    /\ nDispatch = 0
    /\ sessions = <<>>
    /\ use_redis \in BOOLEAN
    /\ clock = 0
    /\ written = [c \in Customers |-> -1]
    /\ sm_last = [op |-> "none", cid |-> ""]
    /\ call = [customer_id |-> ""]

StoreNext ==
    \/ UpdateSession /\ UNCHANGED <<bvars, default_collected_data,
                                    room_tags, today, last, nDispatch, call>>
    \/ StoreDelete /\ UNCHANGED <<bvars, default_collected_data,
                                  room_tags, today, last, nDispatch, call>>
    \/ ClockTick /\ UNCHANGED <<bvars, default_collected_data,
                                room_tags, today, last, nDispatch, call>>

StoreSpec == StoreInit /\ [][StoreNext]_vars

\* ------------------------------------------ specification of the engine
\* the sessions process_message is applied to: one of each state of the
\* engine, a session in validating_customer with the result found and one
\* with the result not found recorded, a session in collect_form with the
\* reference id of an earlier turn stored, the default session and the
\* reset session of the handler
EngineSessions ==
    StartSessions("c1")
    \cup {[state |-> STATE_COLLECT_FORM,
           collected_data |->
              Put(WithCustomerInfo(ComplaintData, "c1", customer_name("c1")),
                  "customer_references_number", "C650AD"),
           message_count |-> 2],
          [state |-> STATE_VALIDATING_CUSTOMER,
           collected_data |-> ValidatedData("c1"), message_count |-> 1],
          [state |-> STATE_VALIDATING_CUSTOMER,
           collected_data |-> Put(FormData("c1"), "customer_validated", FALSE),
           message_count |-> 1],
          [state |-> "detect", collected_data |-> <<>>, message_count |-> 0],
          ResetSession}

\* src/app/services/ai_handler.py line 230-276: one call of
\* process_message
ProcessMessage ==
    \E customer_id \in Customers, message \in Texts,
       session \in EngineSessions :
        \E oracle \in OraclesFor(session) :
            /\ call' = [customer_id |-> customer_id, message |-> message,
                        session |-> session, oracle |-> oracle,
                        result |-> process_message(customer_id,
                                      customer_name(customer_id), message,
                                      session, oracle)]
            /\ UNCHANGED <<bvars, ovars, use_redis, clock, written, sm_last>>

EngineSpec == Init /\ [][ProcessMessage]_vars

\* ------------------------------- specification of the administrative delete
\* src/app/main.py line 339-344: DELETE /session/{customer_id} clears the
\* customer's buffer and deletes the session, with no await in between
AdminDelete ==
    \E customer_id \in Customers :
        LET r == DeleteResult(sessions, customer_id)
        IN  /\ clear(customer_id)
            /\ sessions' = r.store
            /\ sm_last' = [op |-> "delete", cid |-> customer_id,
                           status |-> IF r.success THEN "deleted"
                                      ELSE "not_found",
                           seen |-> Len(accepted)]
            /\ UNCHANGED <<default_collected_data, room_tags, today, last,
                           nDispatch, use_redis, clock, written, call>>

\* the buffer with process_buffered_message as its callback: the callback
\* awaits Qiscus and the language model, and a run that reaches line 226
\* writes the customer's session before it returns; a run that ends at
\* line 159 or 192 writes nothing
RaceNext ==
    \/ AddMessage /\ UNCHANGED <<ovars, xvars>>
    \/ (\E t \in 1..MaxTasks : WatcherWake(t)) /\ UNCHANGED <<ovars, xvars>>
    \/ (\E t \in 1..MaxTasks :
           /\ HandlerReturn(t)
           /\ sessions' = update_session(sessions, tasks[t].cid,
                             [state |-> STATE_GREETING,
                              collected_data |-> <<>>,
                              message_count |-> 1]))
       /\ UNCHANGED <<default_collected_data, room_tags, today, last,
                      nDispatch, xvars>>
    \/ (\E t \in 1..MaxTasks : HandlerReturn(t)) /\ UNCHANGED <<ovars, xvars>>
    \/ (\E t \in 1..MaxTasks : HandlerRaise(t)) /\ UNCHANGED <<ovars, xvars>>
    \/ AdminDelete
    \/ Tick /\ UNCHANGED <<ovars, xvars>>

RaceSpec == Init /\ [][RaceNext]_vars

\* ------------------------------------ specification of the watcher's wait
\* the buffer with no clear and with callbacks that take less than a tick:
\* time passes only while no callback is running, and long enough for a
\* first flush, a later message and more than two further quiet periods
WatchNext ==
    \/ AddMessage /\ UNCHANGED <<ovars, xvars>>
    \/ (\E t \in 1..MaxTasks : WatcherWake(t)) /\ UNCHANGED <<ovars, xvars>>
    \/ (\E t \in 1..MaxTasks : HandlerReturn(t)) /\ UNCHANGED <<ovars, xvars>>
    \/ (\E t \in 1..MaxTasks : HandlerRaise(t)) /\ UNCHANGED <<ovars, xvars>>
    \/ /\ now <= 3 * Delay + 1
       /\ \A t \in DOMAIN tasks :
             tasks[t].pc = "sleep" /\ tasks[t].wake > now
       /\ now' = now + 1
       /\ UNCHANGED <<buffers, active_processors, tasks, nextTask, calls,
                      accepted, cleared, nClears, ovars, xvars>>

WatchSpec == Init /\ [][WatchNext]_vars

\* ------------------------------------------------------------ vocabulary
\* the live watcher tasks of a customer, and those inside the callback
Alive(c) == {t \in DOMAIN tasks : tasks[t].cid = c}
InCallback(c) == {t \in Alive(c) : tasks[t].pc = "callback"}
Sleeping(c) == {t \in Alive(c) : tasks[t].pc = "sleep"}

\* message k (the k-th accepted one) is part of callback invocation i
InCall(k, i) == k \in CharsOf(calls[i].message)
Delivered(k) == \E i \in 1..Len(calls) : InCall(k, i)
InBuffer(k) == \E c \in DOMAIN buffers : k \in CharsOfAll(buffers[c].messages)

\* no task is left: nothing will be flushed unless a new watcher is started
AtRest == DOMAIN tasks = {}

\* the elements of a set of numbers in ascending order
Ascending(S) ==
    CHOOSE s \in [1..Cardinality(S) -> S] :
        \A i, j \in 1..Cardinality(S) : i < j => s[i] < s[j]

\* messages i < j of one customer with no message of that customer between
Adjacent(i, j) ==
    /\ i < j
    /\ accepted[i].cid = accepted[j].cid
    /\ \A m \in (i + 1)..(j - 1) : accepted[m].cid # accepted[i].cid

\* ---------------------------------------------------------------- claims

\* C1: no message is silently dropped: once every watcher has finished, each
\* message add_message accepted has been passed to the handler, unless
\* clear / clear_all discarded it.
C1_NoMessageDropped ==
    AtRest => \A k \in 1..Len(accepted) : Delivered(k) \/ k \in cleared

\* C2: at no instant are two handler invocations for the same customer id
\* in progress.
C2_OneHandlerPerCustomer ==
    \A c \in Customers : Cardinality(InCallback(c)) <= 1

\* C3: single-watcher invariant: at most one _process_when_ready task is
\* alive per customer id.
C3_SingleWatcher ==
    \A c \in Customers : Cardinality(Alive(c)) <= 1

\* C4: after every add_message(customer_id, ...) a watcher is active for
\* customer_id, and if none was alive before the call exactly one was started,
\* whether the call created a buffer or appended to one.
C4_AddStartsWatcher ==
    [][Len(accepted') = Len(accepted) + 1 =>
        LET c == accepted'[Len(accepted')].cid
            before == Alive(c)
            after == {t \in DOMAIN tasks' : tasks'[t].cid = c}
        IN /\ after # {}
           /\ before = {} => Cardinality(after) = 1]_vars

\* C5: no message is delivered to the handler more than once: over all
\* callback invocations each message occurs at most once.
C5_AtMostOnce ==
    \A k \in 1..Len(accepted) :
        Cardinality({<<i, j>> \in (1..Len(calls)) \X (1..(2 * MaxMsgs + 2)) :
                        /\ j <= Len(calls[i].message)
                        /\ calls[i].message[j] = k}) <= 1

\* C5 witness: one watcher of a customer is inside the callback while a second
\* watcher of the same customer is still to wake.
C5_Witness ==
    \E c \in Customers : InCallback(c) # {} /\ Sleeping(c) # {}

\* C6: the combined message of a flush is the texts that were in the buffer,
\* joined by single spaces in the order add_message received them: the batch
\* is a gap-free run of the customer's messages, none twice, none left out.
C6_BatchIsJoin ==
    \A i \in 1..Len(calls) :
        LET ks == CharsOf(calls[i].message) \ {SP}
            order == Ascending(ks)
        IN /\ calls[i].message =
                 Join([n \in 1..Cardinality(ks) |-> accepted[order[n]].text])
           /\ Cardinality(ks) = calls[i].count
           /\ \A k \in ks : accepted[k].cid = calls[i].cid
           /\ \A k \in 1..Len(accepted) :
                 (/\ accepted[k].cid = calls[i].cid
                  /\ \E a, b \in ks : a < k /\ k < b) => k \in ks

\* C6 witness: a flush that combined at least two messages.
C6_Witness == \E i \in 1..Len(calls) : calls[i].count >= 2

\* C7: debounce coalescing: every flush happens at least Delay - Tol after
\* the buffer's last_update; two successive messages of a customer that
\* arrive less than Delay - Tol apart are never split by a flush, and the
\* burst is delivered in one handler invocation.
C7_BurstCoalesced ==
    /\ \A i \in 1..Len(calls) : calls[i].since >= Delay - Tol
    /\ \A a, b \in 1..Len(accepted) :
          (/\ Adjacent(a, b)
           /\ accepted[b].at - accepted[a].at < Delay - Tol
           /\ a \notin cleared /\ b \notin cleared)
          => /\ \A i \in 1..Len(calls) : InCall(a, i) <=> InCall(b, i)
             /\ AtRest => Delivered(a) /\ Delivered(b)

\* C8: debounce separation: with no clear and no failing handler, two
\* successive messages of a customer more than Delay apart end up in two
\* handler invocations, one each, however long the first invocation runs.
C8_Separated ==
    (/\ AtRest
     /\ nClears = 0
     /\ \A i \in 1..Len(calls) : calls[i].st = "returned")
    => \A a, b \in 1..Len(accepted) :
          (Adjacent(a, b) /\ accepted[b].at - accepted[a].at > Delay)
          => \E i, j \in 1..Len(calls) :
                i # j /\ InCall(a, i) /\ InCall(b, j)

\* C9: when the handler of a flush returns or raises, the customer's marker
\* is removed and the next add_message of that customer gets a running
\* watcher: either no buffer is left (the add creates one and starts a
\* watcher) or a sleeping watcher is there to flush it.
C9_HandlerEndFreesCustomer ==
    [][\A t \in DOMAIN tasks :
          (tasks[t].pc = "callback" /\ t \notin DOMAIN tasks') =>
             LET c == tasks[t].cid IN
             /\ c \notin active_processors'
             /\ \/ c \notin DOMAIN buffers'
                \/ \E u \in DOMAIN tasks' :
                      tasks'[u].cid = c /\ tasks'[u].pc = "sleep"]_vars

\* C10: clear removes the buffer and the marker without invoking the handler,
\* and the messages it discarded are never passed to the handler afterwards.
C10_ClearDiscards ==
    /\ [](\A k \in cleared : ~Delivered(k) /\ ~InBuffer(k))
    /\ [][nClears' = nClears + 1 =>
             /\ calls' = calls
             /\ \E c \in Customers :
                   c \notin DOMAIN buffers' /\ c \notin active_processors']_vars

\* C10 witness: after a clear discarded a message, the watcher that was asleep
\* woke and a later message of the same customer was flushed.
C10_Witness ==
    \E k \in cleared : \E i \in 1..Len(calls) :
        /\ calls[i].cid = accepted[k].cid
        /\ \E m \in (k + 1)..Len(accepted) : InCall(m, i)

\* ------------------------------------------------ vocabulary of part 2
\* the handler has just run; it reached the engine
Ran == last.step # "none"

EngineRan == last.step = "engine"

\* the session the engine was given and the session it returned
Given == last.given[1]

Returned == last.results[1].session

\* the state the routing of process_message reads (line 239)
GivenState == Get(Given, "state", STATE_GREETING)

\* the run took the engine's transition from confirm_data to completed:
\* the customer confirmed the report
Confirmed ==
    /\ EngineRan
    /\ GivenState = STATE_CONFIRM_DATA
    /\ Returned.state = STATE_COMPLETED

\* the tag the run found in the room, read from the tag store itself
TagPresent == last.tag.name = TAG_AI_ESCALATED

TagFresh ==
    /\ TagPresent
    /\ last.day <= last.tag.room_tag_created + TAG_EXPIRY_DAYS

TagOld ==
    /\ TagPresent
    /\ last.day > last.tag.room_tag_created + TAG_EXPIRY_DAYS

\* the message of the run is one is_acknowledgment accepts / rejects
Accepted == Ran /\ IsAcknowledgmentOf[last.message]

Rejected ==
    /\ Ran
    /\ ~AckRaisesOf[last.message]
    /\ ~IsAcknowledgmentOf[last.message]

\* the session the store holds for the customer of the run is the one the
\* run found
SessionKept == get_session(last.cid) = last.before[1]

\* the session the run left in the store
Persisted == last.writes[Len(last.writes)]

\* ------------------------------------------------------ claims of part 2

C14_PendingReportIntercepted ==
    (Rejected /\ TagFresh /\ IsReportRelatedOf[last.message]) =>
        /\ last.sent = <<PendingReply>>
        /\ last.given = <<>>
        /\ last.writes = <<>>
        /\ SessionKept

C14_Witness ==
    /\ Rejected /\ TagFresh /\ IsReportRelatedOf[last.message]
    /\ last.day = last.tag.room_tag_created + TAG_EXPIRY_DAYS
    /\ last.cid \in DOMAIN sessions
    /\ last.sent = <<PendingReply>>

\* C15: when the tag is present and fresh and the message is neither an
\* acknowledgment nor report-related, the message is passed to the engine
\* and the session persisted at the end of the run has
\* collected_data["has_pending_report"] = True, whatever the state of the
\* session the run found.
C15_PendingReportMarked ==
    (Rejected /\ TagFresh /\ ~IsReportRelatedOf[last.message]) =>
        /\ EngineRan
        /\ "has_pending_report" \in DOMAIN Persisted.collected_data
        /\ Persisted.collected_data["has_pending_report"] = TRUE

\* C16: whenever a message is dispatched for a room whose tag is older than
\* the threshold, the tag is removed and the session is reset to the default
\* (detect, no collected data, message_count 0) before the engine runs.  The
\* formula states it for the messages that are not acknowledgments only.
C16_ExpiredTagResets ==
    (Ran /\ TagOld /\ ~IsAcknowledgmentOf[last.message]) =>
        /\ last.tag_removed
        /\ room_tags[room_id(last.cid)] = NoTag
        /\ last.writes # <<>> /\ last.writes[1] = ResetSession
        /\ last.given = <<ResetSession>>

\* C17: for every session state, a message is_acknowledgment accepts makes
\* the handler send the fixed reply "Siap kak!", not call process_message
\* and leave the stored session unchanged.
C17_AcknowledgmentBypass ==
    Accepted =>
        /\ last.sent = <<AckReply>>
        /\ last.given = <<>>
        /\ last.writes = <<>>
        /\ SessionKept

C17_Witness ==
    /\ Accepted
    /\ last.message = "siap"
    /\ last.before[1].state = STATE_COLLECT_FORM
    /\ sessions[last.cid] = last.before[1]
    /\ last.sent = <<AckReply>>

\* the terminal state: the one the overlay tests for and the one the engine
\* writes when a conversation is closed
Terminal == {"escalated", STATE_COMPLETED}

\* C18: if the room has no escalation tag and the stored session is in the
\* terminal state, the handler replaces the session by the default one,
\* persists it and gives the reset session to the engine.
C18_ClosedSessionReset ==
    (Rejected /\ ~TagPresent /\ last.before[1].state \in Terminal) =>
        /\ last.given = <<ResetSession>>
        /\ last.writes[1] = ResetSession

\* C19: every session the handler gives to process_message, the default
\* and the reset value included, has a state of the engine's declared set,
\* and so has every session the handler writes to the store.
C19_StateEnum ==
    EngineRan =>
        /\ GivenState \in EngineStates
        /\ \A i \in 1..Len(last.writes) :
              last.writes[i].state \in EngineStates

\* the pairs of a state and an input the transition table lists: every
\* input of a declared state, except a message in validating_customer
\* while no validation result is recorded
Listed ==
    /\ GivenState \in EngineStates
    /\ GivenState = STATE_VALIDATING_CUSTOMER =>
          "customer_validated" \in DOMAIN Get(Given, "collected_data", <<>>)

\* C20: for a pair of state and input the transition table does not list,
\* process_message returns a session in the state of the session it was
\* given.  The formula states it for the declared states only.
C20_UnlistedKeepsState ==
    (EngineRan /\ ~Listed /\ GivenState \in EngineStates) =>
        Returned.state = GivenState

\* ------------------------------------------------------ claims of part 3

\* the message_count a write of the run found in the store: the count of
\* the session get_session returned for the first write, the count of the
\* write before it for a later one
CountBefore(i) ==
    IF i = 1 THEN Get(last.before[1], "message_count", 0)
    ELSE Get(last.writes[i - 1], "message_count", 0)

\* C21: every session a run of the handler writes, the tag-expiry and the
\* escalated-state resets included, has the message_count the store held
\* before that write plus one, so the stored count never decreases.
C21_CountGrowsByOne ==
    Ran =>
        \A i \in 1..Len(last.writes) :
            Get(last.writes[i], "message_count", 0) = CountBefore(i) + 1

\* the default session a customer without a stored record is promised
FreshDefault == [state |-> "detect", collected_data |-> <<>>,
                 message_count |-> 0]

\* C22: whatever was done before, for this or another customer,
\* get_session for a customer with no stored record returns the default
\* session with state detect, empty collected_data and message_count 0.
C22_DefaultStaysClean ==
    \A c \in Customers \ DOMAIN sessions : get_session(c) = FreshDefault

\* C26: a dispatch that finds the session in validating_customer finds a
\* validation result recorded in it and takes the transition to
\* confirm_data (found) or back to collect_form (not found).
C26_ValidationRecorded ==
    (EngineRan /\ GivenState = STATE_VALIDATING_CUSTOMER) =>
        /\ "customer_validated" \in DOMAIN Given.collected_data
        /\ Returned.state \in {STATE_CONFIRM_DATA, STATE_COLLECT_FORM}

\* ---------------------------------------- vocabulary of the engine claims
\* process_message has been called
Called == call.customer_id # ""

\* the state the call was routed by
CallState == Get(call.session, "state", STATE_GREETING)

\* the collected data the session came with
CallData == Get(call.session, "collected_data", <<>>)

\* the state and the collected data the call returned
ResultState == call.result.session.state

ResultData == call.result.session.collected_data

IdentityFields == {"customer_name", "phone"}

\* data d equals data e on every field outside the set skip
SameApartFrom(d, e, skip) ==
    /\ DOMAIN d \ skip = DOMAIN e \ skip
    /\ \A k \in DOMAIN d \ skip : d[k] = e[k]

\* C23: when the classification call of the state fails or its JSON answer
\* lacks the expected key, process_message stays in the current state, in
\* greeting (DETECT), check_resolved (TROUBLESHOOT) and completed
\* (ESCALATED).
C23_OracleFailureStays ==
    (/\ Called
     /\ CallState \in {STATE_GREETING, STATE_CHECK_RESOLVED, STATE_COMPLETED}
     /\ call.oracle.first \in {"error", "missing"})
        => ResultState = CallState

\* C27: in check_resolved (TROUBLESHOOT), a message classified as resolved
\* makes process_message return the initial state DETECT.
C27_ResolvedReturnsToDetect ==
    (Called /\ CallState = STATE_CHECK_RESOLVED
            /\ call.oracle.first = "true")
        => ResultState \in {"detect", STATE_GREETING}

\* the language model, or the keyword fallback after its failure, takes
\* the message as not resolved
ClassifiedNotResolved ==
    \/ call.oracle.first = "false"
    \/ call.oracle.first = "error" /\ StillNotWorkingOf[call.message]

\* C28: in check_resolved (TROUBLESHOOT), a message classified as not
\* resolved makes process_message return collect_form (FORM_COLLECT), the
\* fixed form template as the reply, not the generated text, and the
\* collected data unchanged apart from the identity fields.
C28_NotResolvedShowsForm ==
    (Called /\ CallState = STATE_CHECK_RESOLVED /\ ClassifiedNotResolved)
        => /\ ResultState = STATE_COLLECT_FORM
           /\ call.result.reply = FormText
           /\ call.result.reply # call.oracle.text
           /\ SameApartFrom(ResultData, CallData, IdentityFields)

C28_Witness ==
    /\ Called
    /\ CallState = STATE_CHECK_RESOLVED
    /\ call.message = "masih mati kak"
    /\ call.oracle.first = "false"
    /\ ResultState = STATE_COLLECT_FORM
    /\ call.result.reply = FormText

\* what the call extracted from the form
CallId == ExtractedIdOf[call.message]

CallDesc == ExtractedDescOf[call.message]

MinDescLen == 5

\* C29: in collect_form (FORM_COLLECT), process_message returns
\* validating_customer (VALIDATING) exactly when it extracted a reference
\* id and a description of at least the minimal length; otherwise it
\* returns collect_form with a reply asking for the missing field and
\* stores nothing but the extracted id.
C29_FormCompleteIffValidating ==
    (Called /\ CallState = STATE_COLLECT_FORM)
        => /\ ResultState = STATE_VALIDATING_CUSTOMER
                <=> (CallId # "" /\ Len(CallDesc) >= MinDescLen)
           /\ ResultState = STATE_VALIDATING_CUSTOMER
                => /\ ResultData["customer_references_number"] = CallId
                   /\ ResultData["description"] = CallDesc
           /\ ResultState # STATE_VALIDATING_CUSTOMER
                => /\ ResultState = STATE_COLLECT_FORM
                   /\ call.result.reply =
                         IF CallId = ""
                         THEN "Hmm, saya tidak menemukan ID Pelanggan di pesanmu"
                         ELSE "ID Pelanggan: " \o CallId
                                 \o " Tapi detail gangguannya belum ada"
                   /\ SameApartFrom(ResultData, CallData,
                         IdentityFields \cup {"customer_references_number"})
                   /\ IF CallId = ""
                      THEN SameApartFrom(ResultData, CallData, IdentityFields)
                      ELSE ResultData["customer_references_number"] = CallId

C29_Witness ==
    /\ Called
    /\ CallState = STATE_COLLECT_FORM
    /\ call.message = "ID: C650AD\nGangguan: mati"
    /\ ResultState = STATE_COLLECT_FORM
    /\ ResultData["customer_references_number"] = "C650AD"
    /\ "description" \notin DOMAIN ResultData

\* the validation result recorded in the session the call came with
Recorded(found) ==
    /\ "customer_validated" \in DOMAIN CallData
    /\ CallData["customer_validated"] = found

SummaryPrefix == "Ringkasan Laporan: "

\* C30: in validating_customer (VALIDATING), a recorded result found makes
\* process_message return confirm_data (CONFIRM) with the summary as the
\* reply; a recorded result not found makes it return collect_form with
\* the reference id and the validation flag removed from the collected
\* data and every other field kept.
C30_ValidationResultRouted ==
    (Called /\ CallState = STATE_VALIDATING_CUSTOMER)
        => /\ Recorded(TRUE)
                => /\ ResultState = STATE_CONFIRM_DATA
                   /\ Len(call.result.reply) > Len(SummaryPrefix)
                   /\ SubSeq(call.result.reply, 1, Len(SummaryPrefix))
                         = SummaryPrefix
           /\ Recorded(FALSE)
                => /\ ResultState = STATE_COLLECT_FORM
                   /\ "customer_references_number" \notin DOMAIN ResultData
                   /\ "customer_validated" \notin DOMAIN ResultData
                   /\ SameApartFrom(ResultData, CallData,
                         IdentityFields \cup {"customer_references_number",
                                              "customer_validated"})
                   /\ \A k \in IdentityFields \cap DOMAIN CallData :
                         ResultData[k] = CallData[k]

C30_Witness ==
    /\ Called
    /\ CallState = STATE_VALIDATING_CUSTOMER
    /\ Recorded(FALSE)
    /\ "customer_references_number" \in DOMAIN CallData
    /\ ResultState = STATE_COLLECT_FORM
    /\ "customer_validated" \notin DOMAIN ResultData
    /\ "description" \in DOMAIN ResultData

\* C24: sliding expiry in both storage modes: a session not written for
\* longer than session_ttl reads back as the default session, and a
\* session written less than session_ttl ago is still stored.
C24_SlidingExpiry ==
    \A c \in Customers :
        written[c] >= 0 =>
            /\ clock > written[c] + session_ttl
                  => get_session(c) = FreshDefault
            /\ clock < written[c] + session_ttl
                  => c \in DOMAIN sessions

\* C25: delete_session reports success whether or not the session is
\* stored and leaves it absent, so that get_session returns the default;
\* applied a second time it leaves the store as the first call left it.
C25_DeleteIdempotent ==
    sm_last.op = "delete" =>
        /\ sm_last.status = "deleted"
        /\ sm_last.cid \notin DOMAIN sessions
        /\ get_session(sm_last.cid) = FreshDefault
        /\ sm_last.prev = <<"delete", sm_last.cid>>
              => sessions = sm_last.before

C25_Witness ==
    /\ sm_last.op = "delete"
    /\ sm_last.prev = <<"delete", sm_last.cid>>
    /\ sm_last.status = "deleted"
    /\ sm_last.cid \notin DOMAIN sessions
    /\ sessions = sm_last.before
    /\ sessions # <<>>

\* ------------------------------------------------------ claims of part 4
\* the fields a correction keeps and the fields of the form it drops
KeptFields ==
    {"customer_name", "phone", "initial_complaint", "issue_type",
     "troubleshooting_given"}

FormFields ==
    {"customer_references_number", "description", "problem_time",
     "customer_validated"}

\* C31: in confirm_data (CONFIRM), a negative answer makes process_message
\* return collect_form with the collected data reduced to the kept fields,
\* their values as they were and the reference id, the description, the
\* problem time and the validation result gone; an answer that is neither
\* yes nor no returns confirm_data with the collected data unchanged.
C31_CorrectionKeepsIdentity ==
    (Called /\ CallState = STATE_CONFIRM_DATA)
        => /\ IsNoOf[call.message]
                => /\ ResultState = STATE_COLLECT_FORM
                   /\ DOMAIN ResultData \subseteq KeptFields
                   /\ DOMAIN ResultData \cap FormFields = {}
                   /\ \A k \in KeptFields \cap DOMAIN CallData :
                         k \in DOMAIN ResultData /\ ResultData[k] = CallData[k]
           /\ (~IsYesOf[call.message] /\ ~IsNoOf[call.message])
                => /\ ResultState = STATE_CONFIRM_DATA
                   /\ SameApartFrom(ResultData, CallData, IdentityFields)
                   /\ \A k \in IdentityFields \cap DOMAIN CallData :
                         ResultData[k] = CallData[k]

C31_Witness ==
    /\ Called
    /\ CallState = STATE_CONFIRM_DATA
    /\ call.message = "tidak"
    /\ FormFields \subseteq DOMAIN CallData
    /\ ResultState = STATE_COLLECT_FORM
    /\ "initial_complaint" \in DOMAIN ResultData
    /\ DOMAIN ResultData \cap FormFields = {}

NewIssueFields == {"initial_complaint", "issue_type", "troubleshooting_given"}

\* C32: in completed (ESCALATED), a detected new issue makes the engine
\* drop all collected data but the customer's name and number and run the
\* detection of the greeting on the message; with no new issue, or with a
\* failed detection, the state stays completed and the collected data are
\* unchanged.
C32_NewIssueResets ==
    (Called /\ CallState = STATE_COMPLETED)
        => /\ call.oracle.first = "true"
                => /\ ResultState =
                         IF call.oracle.second = "true"
                         THEN STATE_CHECK_RESOLVED ELSE STATE_GREETING
                   /\ DOMAIN ResultData =
                         IdentityFields \cup
                            (IF call.oracle.second = "true"
                             THEN NewIssueFields ELSE {})
                   /\ \A k \in IdentityFields \cap DOMAIN CallData :
                         ResultData[k] = CallData[k]
                   /\ call.oracle.second = "true"
                         => ResultData["initial_complaint"] = call.message
           /\ call.oracle.first # "true"
                => /\ ResultState = STATE_COMPLETED
                   /\ SameApartFrom(ResultData, CallData, IdentityFields)
                   /\ \A k \in IdentityFields \cap DOMAIN CallData :
                         ResultData[k] = CallData[k]

C32_Witness ==
    /\ Called
    /\ CallState = STATE_COMPLETED
    /\ call.oracle.first = "true"
    /\ call.oracle.second = "true"
    /\ call.message = "internet mati"
    /\ "description" \in DOMAIN CallData
    /\ ResultState = STATE_CHECK_RESOLVED
    /\ "description" \notin DOMAIN ResultData

\* the state of the session the run found in the store
FoundState == Get(last.before[1], "state", STATE_GREETING)

C39_AcknowledgmentTotal ==
    Ran => /\ last.step \in {"ack", "intercept", "engine"}
           /\ message_clean(last.message) = "" => last.sent # <<>>

\* the session the run left in the store carries the mark of a pending
\* report
MarkedPending ==
    /\ "has_pending_report" \in DOMAIN Persisted.collected_data
    /\ Persisted.collected_data["has_pending_report"] = TRUE

\* C36: a stored session carries has_pending_report = true only if the
\* room had a fresh tag at the customer's last run that reached the
\* engine: after a run without tag the mark is not in the stored session.
C36_MarkOnlyWithTag ==
    (EngineRan /\ MarkedPending) => TagFresh

\* C37: in collect_form, a reference id stored by an earlier turn together
\* with a description of the minimal length in the current message moves
\* the engine to validating_customer, whether or not the message repeats
\* the id.
C37_IdKeptAcrossTurns ==
    (/\ Called
     /\ CallState = STATE_COLLECT_FORM
     /\ "customer_references_number" \in DOMAIN CallData
     /\ Len(CallDesc) >= MinDescLen)
        => /\ ResultState = STATE_VALIDATING_CUSTOMER
           /\ "description" \in DOMAIN ResultData

\* no message of the customer was accepted after the delete
NoneAddedSince ==
    \A i \in (sm_last.seen + 1)..Len(accepted) :
        accepted[i].cid # sm_last.cid

\* C35: after DELETE /session/{customer_id} has returned, and as long as
\* no later message is added for the customer, the customer's session is
\* absent from the store and reads return the default session, also when a
\* run of the handler for the customer was in flight at the delete.
C35_DeleteIsFinal ==
    (sm_last.op = "delete" /\ NoneAddedSince)
        => /\ sm_last.cid \notin DOMAIN sessions
           /\ get_session(sm_last.cid) = FreshDefault

\* a callback for the customer is running
InFlight(c) == \E t \in DOMAIN tasks : tasks[t].cid = c /\ tasks[t].pc = "callback"

\* C38: with no callback for the customer in flight and no clear, a
\* buffered batch is flushed no later than two quiet periods after its
\* last message was added.
C38_FlushedWithinTwoDelays ==
    \A c \in DOMAIN buffers :
        (~InFlight(c) /\ nClears = 0)
            => now - buffers[c].last_update <= 2 * Delay

====
